---- MODULE Spec2Model ----
(***************************************************************************)
(* Model of rhel-kernel-get.py: the version-resolution and acquisition     *)
(* pipeline (get_kernel_source and the functions it calls), the KABI       *)
(* extraction (get_kabi_file) and the module-level orchestration.          *)
(*                                                                         *)
(* Strings are TLA+ strings; file names are absolute paths; the file       *)
(* system is the set of the paths of the regular files plus the set of     *)
(* directories created by mkdir.  Relative names are resolved against the  *)
(* process current directory, as the operating system does.                *)
(***************************************************************************)
EXTENDS Integers, Sequences, FiniteSets, TLC

VARIABLES
    version,      \* args.version
    want_kabi,    \* args.kabi
    pc,           \* position of the (single) thread of the script
    cwd,          \* process current directory (os.getcwd())
    files,        \* absolute paths of the regular files that exist
    dirs,         \* absolute paths of the directories made by mkdir / tar
    target,       \* content of <output-dir>/<kernel-dir-name>; {} when absent
    target0,      \* content of that directory when the script was started
    inv0,         \* files of the invocation directory when the script started
    source,       \* acquisition strategy being executed ("" before the choice)
    attempted,    \* acquisition strategies entered so far, in order
    dns,          \* outcome of gethostbyname: "none" (not called), "ok", "fail"
    url,          \* url handed to the last urlretrieve
    localname,    \* file name handed to the last urlretrieve
    downloads,    \* number of urlretrieve calls started
    fetching,     \* TRUE while urlretrieve is running
    size,         \* urlretrieve: total size announced by the server
    blocknum,     \* urlretrieve: blocks read so far
    nread,        \* urlretrieve: bytes read so far
    pbar,         \* the global progress bar
    tarname,      \* name returned by the get_kernel_tar_from_* functions
    srpm_returned,\* TRUE once get_kernel_from_srpm has returned a name
    kernel_dir,   \* value returned by extract_tar ("" before)
    config_file,  \* value returned by get_config_file ("" for None)
    cmds,         \* the commands run by configure_kernel and how each ended
    kabi_cwd,     \* get_kabi_file: its local cwd
    kabi_dir,     \* get_kabi_file: its local kabi_dir
    kabi_made,    \* TRUE once get_kabi_file has made the kabi directory
    kabi_ret,     \* how get_kabi_file ended: "", "value", "None", "raised"
    kabi_result,  \* the value get_kabi_file returned ("" for None)
    kabi_file,    \* get_kabi_file: its local kabi_file ("" while unbound)
    error         \* the uncaught exception that ended the run ("" if none)

vars == <<version, want_kabi, pc, cwd, files, dirs, target, target0, inv0,
          source, attempted, dns, url, localname, downloads, fetching, size,
          blocknum, nread, pbar, tarname, srpm_returned, kernel_dir,
          config_file, cmds, kabi_cwd, kabi_dir, kabi_made, kabi_ret,
          kabi_result, kabi_file, error>>

----------------------------------------------------------------------------
(* Bounds of the model *)

\* Largest total size (in bytes) a server announces for a download.
MaxSize == 3

\* Block size urlretrieve reads with (8192 in the library; scaled down).
BlockSize == 2

----------------------------------------------------------------------------
(* Python string operations *)

Min(a, b) == IF a < b THEN a ELSE b

\* s[i] as a one-character string (1-based)
Char(s, i) == SubSeq(s, i, i)

\* s[:n] for n >= 0
Slice(s, n) == SubSeq(s, 1, Min(n, Len(s)))

\* s[:-n] for n > 0
DropLast(s, n) == IF Len(s) > n THEN SubSeq(s, 1, Len(s) - n) ELSE ""

\* s.endswith(suffix)
EndsWith(s, suffix) ==
    /\ Len(s) >= Len(suffix)
    /\ SubSeq(s, Len(s) - Len(suffix) + 1, Len(s)) = suffix

\* s.startswith(prefix)
StartsWith(s, prefix) ==
    /\ Len(s) >= Len(prefix)
    /\ SubSeq(s, 1, Len(prefix)) = prefix

\* sep in s, for a one-character sep
Contains(s, sep) == \E i \in 1..Len(s) : Char(s, i) = sep

RECURSIVE SplitFrom(_, _, _, _)
SplitFrom(s, sep, i, cur) ==
    IF i > Len(s) THEN <<cur>>
    ELSE IF Char(s, i) = sep THEN <<cur>> \o SplitFrom(s, sep, i + 1, "")
    ELSE SplitFrom(s, sep, i + 1, cur \o Char(s, i))

\* s.split(sep), for a one-character sep
Split(s, sep) == SplitFrom(s, sep, 1, "")

Digits == {"0", "1", "2", "3", "4", "5", "6", "7", "8", "9"}

\* re: \d+ matches the whole of s
IsDigits(s) == Len(s) > 0 /\ \A i \in 1..Len(s) : Char(s, i) \in Digits

DigitVal(c) == CHOOSE d \in 0..9 : ToString(d) = c

RECURSIVE ToInt(_)
\* int(s) for a string of digits
ToInt(s) ==
    IF Len(s) = 0 THEN 0
    ELSE 10 * ToInt(SubSeq(s, 1, Len(s) - 1)) + DigitVal(Char(s, Len(s)))

\* os.path.join(d, name) / os.path.abspath(name) with d the current directory
Join(d, name) == IF StartsWith(name, "/") THEN name ELSE d \o "/" \o name

\* os.path.basename(path)
Basename(path) == LET parts == Split(path, "/") IN parts[Len(parts)]

----------------------------------------------------------------------------
(* distutils.version.StrictVersion, as used by the script *)

\* position of the first "a" or "b" of s, or 0
PreAt(s) ==
    IF \E i \in 1..Len(s) : Char(s, i) \in {"a", "b"}
    THEN CHOOSE i \in 1..Len(s) :
            /\ Char(s, i) \in {"a", "b"}
            /\ \A j \in 1..(i - 1) : Char(s, j) \notin {"a", "b"}
    ELSE 0

\* the last dotted component: digits, then optionally [ab] and digits
LastNumber(s) == IF PreAt(s) = 0 THEN s ELSE SubSeq(s, 1, PreAt(s) - 1)
LastPre(s) == IF PreAt(s) = 0 THEN "" ELSE SubSeq(s, PreAt(s) + 1, Len(s))

\* StrictVersion(version) does not raise ValueError:
\* version_re = ^(\d+) \. (\d+) (\. (\d+))? ([ab](\d+))?$
StrictVersionParses(v) ==
    LET parts == Split(v, ".")
        n == Len(parts)
    IN /\ n \in {2, 3}
       /\ \A i \in 1..(n - 1) : IsDigits(parts[i])
       /\ IsDigits(LastNumber(parts[n]))
       /\ PreAt(parts[n]) # 0 => IsDigits(LastPre(parts[n]))

\* StrictVersion(version).version: (major, minor, patch), patch 0 if absent
StrictVersionTuple(v) ==
    LET parts == Split(v, ".")
        n == Len(parts)
    IN <<ToInt(parts[1]),
         IF n = 2 THEN ToInt(LastNumber(parts[2])) ELSE ToInt(parts[2]),
         IF n = 2 THEN 0 ELSE ToInt(LastNumber(parts[3]))>>

\* StrictVersion(version).prerelease is not None
StrictVersionHasPre(v) ==
    LET parts == Split(v, ".") IN PreAt(parts[Len(parts)]) # 0

\* StrictVersion(v) < StrictVersion("3.0")
BelowThreeZero(v) ==
    LET t == StrictVersionTuple(v)
    IN \/ t[1] < 3
       \/ t = <<3, 0, 0>> /\ StrictVersionHasPre(v)

----------------------------------------------------------------------------
(* Constants of the script *)

\* os.getcwd() when the script starts, and the directory mkdtemp() makes
INVOCATION == "/inv"
TMP == "/tmp/w"

centos_kernel_map ==
    ("3.10.0-123.el7" :> "7.0.1406") @@ ("3.10.0-229.el7" :> "7.1.1503") @@
    ("3.10.0-327.el7" :> "7.2.1511") @@ ("3.10.0-514.el7" :> "7.3.1611") @@
    ("3.10.0-693.el7" :> "7.4.1708") @@ ("3.10.0-862.el7" :> "7.5.1804") @@
    ("3.10.0-957.el7" :> "7.6.1810") @@ ("3.10.0-1062.el7" :> "7.7.1908") @@
    ("3.10.0-1127.el7" :> "7.8.2003") @@ ("4.18.0-80.el8" :> "8.0.1905") @@
    ("4.18.0-147.el8" :> "8.1.1911") @@ ("4.18.0-193.el8" :> "8.2.2004") @@
    ("4.18.0-240.el8" :> "8.3.2011") @@ ("4.18.0-305.el8" :> "8.4.2105") @@
    ("4.18.0-348.el8" :> "8.5.2111")

kabi_filenames == <<"kabi_whitelist_x86_64", "kabi_stablelist_x86_64">>

\* pbar = None
None == [active |-> FALSE, maxval |-> 0, currval |-> 0]

\* Exceptions that are instances of OSError.  socket.error is an alias of
\* OSError, and urllib's URLError (with HTTPError and ContentTooShortError)
\* and FileNotFoundError are subclasses of it; CalledProcessError,
\* ValueError, KeyError and UnboundLocalError are not.
socket_error == {"gaierror", "URLError", "FileNotFoundError"}

----------------------------------------------------------------------------
(* Inputs and environment *)

Majors == {2, 3, 10}
Minors == {0, 6, 10}
Patches == {4}

\* plain upstream versions the user may ask for
NumericVersions ==
    {ToString(a) \o "." \o ToString(b) : a \in Majors, b \in Minors}
    \cup {ToString(a) \o "." \o ToString(b) \o "." \o ToString(c) :
             a \in Majors, b \in Minors, c \in Patches}

\* distribution versions: those of centos_kernel_map and others
DistroVersions ==
    DOMAIN centos_kernel_map
    \cup {"2.6.18-398.el5", "5.14.0-70.el9", "3.10.0-957.rt56-1.el7"}

Versions == NumericVersions \cup DistroVersions \cup {"4.18.0.el8", "3.0b1"}

\* the names get_config_file looks for
configfile_options(v) ==
    <<"kernel-x86_64.config",
      "kernel-" \o Split(v, "-")[1] \o "-x86_64.config">>

\* the names get_kabi_file looks for (lines 71-82)
kabi_tarname_options(v) ==
    <<"kernel-abi-stablelists-" \o DropLast(v, 4) \o ".tar.bz2",
      "kernel-abi-whitelists-" \o DropLast(v, 4) \o ".tar.bz2",
      "kernel-abi-whitelists.tar.bz2">>
    \o (IF Contains(v, "-")
        THEN LET rel == Split(Split(v, "-")[2], ".")[1]
             IN <<"kernel-abi-whitelists-" \o rel \o ".tar.bz2",
                  "kernel-abi-stablelists-" \o rel \o ".tar.bz2">>
        ELSE <<>>)

\* files the invocation directory may hold when the script starts
InvocationFiles(v) ==
    { {},
      {configfile_options(v)[1], kabi_filenames[1]},
      {configfile_options(v)[2]},
      {kabi_filenames[2]} }

\* what unpacking a source package may deposit in the working directory
SrpmContents(v) ==
    LET xz   == "linux-" \o v \o ".tar.xz"
        bz2  == "linux-" \o v \o ".tar.bz2"
        cfgX == configfile_options(v)[1]
        cfgV == configfile_options(v)[2]
        arch == kabi_tarname_options(v)
        last == arch[Len(arch)]
    IN { {xz, cfgV, "kernel.spec", last},
         {xz, cfgX, cfgV, "kernel.spec", arch[1]},
         {bz2, cfgX, "kernel.spec", kabi_filenames[1]},
         {xz, bz2, "kernel.spec"},
         {"kernel.spec", "linux-" \o Split(v, "-")[1] \o ".tar.bz2"},
         {xz, cfgV, arch[3]} }

\* what a KABI archive may hold, relative to the directory it is unpacked in
KabiLayouts ==
    { {"kabi-current/kabi_whitelist_x86_64"},
      {"kabi-current/kabi_stablelist_x86_64"},
      {"kabi-current/kabi_whitelist_ppc64"},
      {"kabi-rhel76/kabi_whitelist_x86_64"},
      {"kabi-rhel76/kabi_whitelist_s390x"} }

\* the directory a KABI_CURRENT= line of kernel.spec may name ("": no line)
KabiCurrentValues == {"", "kabi-rhel76"}

----------------------------------------------------------------------------
(* File system *)

\* os.path.isfile(name)
IsFile(name) == Join(cwd, name) \in files

\* path lies below directory d
Below(path, d) == StartsWith(path, d \o "/")

\* os.path.isdir(name)
IsDir(name) ==
    \/ Join(cwd, name) \in dirs
    \/ \E f \in files : Below(f, Join(cwd, name))

\* first element of seq that satisfies IsFile, or "" if none
RECURSIVE FirstFileFrom(_, _)
FirstFileFrom(seq, i) ==
    IF i > Len(seq) THEN ""
    ELSE IF IsFile(seq[i]) THEN seq[i]
    ELSE FirstFileFrom(seq, i + 1)

FirstFile(seq) == FirstFileFrom(seq, 1)

----------------------------------------------------------------------------
(* Groups of variables *)

inputs == <<version, want_kabi, target0, inv0>>
fsv    == <<cwd, files, dirs>>
planv  == <<source, attempted, dns>>
fetchv == <<url, localname, downloads, fetching, size, blocknum, nread, pbar>>
srcv   == <<tarname, srpm_returned, kernel_dir>>
confv  == <<config_file, cmds>>
kabiv  == <<kabi_cwd, kabi_dir, kabi_made, kabi_ret, kabi_result, kabi_file>>

----------------------------------------------------------------------------
(* Exceptions *)

\* The position is inside the inner try of get_kernel_source (lines 242-244):
\* the gethostbyname call and the whole of get_kernel_tar_from_brew.
InBrewTry ==
    \/ pc = "gethostbyname"
    \/ /\ source = "InternalBuildSystem"
       /\ pc \in {"brew", "urlretrieve", "read", "srpm"}

\* Where control goes when exc is raised at the current position: to the
\* handler `except socket_error` (line 245) or out of the script.
Handler(exc) ==
    IF InBrewTry /\ exc \in socket_error THEN "centos" ELSE "aborted"

Raise(exc) ==
    /\ pc' = Handler(exc)
    /\ error' = IF Handler(exc) = "aborted" THEN exc ELSE error

----------------------------------------------------------------------------
(* Initial state: the command line is parsed (lines 320-327) *)

Init ==
    /\ version \in Versions
    /\ want_kabi \in BOOLEAN
    /\ target0 \in {{}, {"stale"}}
    /\ target = target0
    /\ inv0 \in {{Join(INVOCATION, f) : f \in c} : c \in InvocationFiles(version)}
    /\ files = inv0
    /\ dirs = {INVOCATION}
    /\ cwd = INVOCATION
    /\ pc = "start"
    /\ source = ""
    /\ attempted = <<>>
    /\ dns = "none"
    /\ url = ""
    /\ localname = ""
    /\ downloads = 0
    /\ fetching = FALSE
    /\ size = 0
    /\ blocknum = 0
    /\ nread = 0
    /\ pbar = None
    /\ tarname = ""
    /\ srpm_returned = FALSE
    /\ kernel_dir = ""
    /\ config_file = ""
    /\ cmds = <<>>
    /\ kabi_cwd = ""
    /\ kabi_dir = ""
    /\ kabi_made = FALSE
    /\ kabi_ret = ""
    /\ kabi_result = ""
    /\ kabi_file = ""
    /\ error = ""

----------------------------------------------------------------------------
(* Orchestrator, lines 329-339: output directory, temporary directory *)

Setup ==
    /\ pc = "start"
    /\ dirs' = dirs \cup {TMP}
    /\ cwd' = TMP
    /\ pc' = "get_kernel_source"
    /\ UNCHANGED <<inputs, files, target, planv, fetchv, srcv, confv, kabiv,
                   error>>

----------------------------------------------------------------------------
(* get_kernel_source, lines 238-246: the choice of the strategy *)

TryStrictVersion ==
    /\ pc = "get_kernel_source"
    /\ IF StrictVersionParses(version)
       THEN /\ source' = "Upstream"
            /\ attempted' = Append(attempted, "Upstream")
            /\ pc' = "upstream"
       ELSE /\ pc' = "gethostbyname"
            /\ UNCHANGED <<source, attempted>>
    /\ UNCHANGED <<inputs, fsv, target, dns, fetchv, srcv, confv, kabiv, error>>

\* gethostbyname("download.eng.bos.redhat.com"): resolves, or raises gaierror
GetHostByName ==
    /\ pc = "gethostbyname"
    /\ \/ /\ dns' = "ok"
          /\ pc' = "brew"
          /\ UNCHANGED error
       \/ /\ dns' = "fail"
          /\ Raise("gaierror")
    /\ UNCHANGED <<inputs, fsv, target, source, attempted, fetchv, srcv, confv,
                   kabiv>>

----------------------------------------------------------------------------
(* The three strategies: the URL and the local name of the download *)

\* get_kernel_tar_from_upstream, lines 125-135
upstream_url(v) ==
    "https://www.kernel.org/pub/linux/kernel/"
    \o (IF BelowThreeZero(v)
        THEN "v" \o Slice(v, 3) \o "/"
        ELSE "v" \o Slice(v, 1) \o ".x/")
    \o "linux-" \o v \o ".tar.xz"

\* get_kernel_tar_from_brew, lines 172-176 (version.split("-") has 2 parts)
brew_url(v) ==
    LET ver == Split(v, "-")[1]
        release == Split(v, "-")[2]
    IN "http://download.eng.bos.redhat.com/brewroot/packages/kernel/"
       \o ver \o "/" \o release \o "/src/"
       \o "kernel-" \o v \o ".src.rpm"

\* a variant of centos_url that takes BaseOS for the .el7 versions instead
centos_url_el7(v) ==
    "http://vault.centos.org/"
    \o centos_kernel_map[v]
    \o (IF EndsWith(v, ".el7") THEN "/BaseOS" ELSE "/os")
    \o "/Source/SPackages/"
    \o "kernel-" \o v \o ".src.rpm"

\* get_kernel_tar_from_centos, lines 206-211 (version is a key of the map)
centos_url(v) ==
    "http://vault.centos.org/"
    \o centos_kernel_map[v]
    \o (IF EndsWith(v, ".el8") THEN "/BaseOS" ELSE "/os")
    \o "/Source/SPackages/"
    \o "kernel-" \o v \o ".src.rpm"

\* centos_kernel_map[version] raises KeyError
centos_key_error(v) == v \notin DOMAIN centos_kernel_map

\* get_kernel_tar_from_upstream up to its urlretrieve call
Upstream ==
    /\ pc = "upstream"
    /\ url' = upstream_url(version)
    /\ localname' = "linux-" \o version \o ".tar.xz"
    /\ pc' = "urlretrieve"
    /\ UNCHANGED <<inputs, fsv, target, planv, downloads, fetching, size,
                   blocknum, nread, pbar, srcv, confv, kabiv, error>>

\* get_kernel_tar_from_brew up to the urlretrieve call of get_kernel_from_srpm
Brew ==
    /\ pc = "brew"
    /\ source' = "InternalBuildSystem"
    /\ attempted' = Append(attempted, "InternalBuildSystem")
    /\ IF Len(Split(version, "-")) # 2
       THEN \* ver, release = version.split("-") cannot unpack
            /\ pc' = "aborted"
            /\ error' = "ValueError"
            /\ UNCHANGED <<url, localname>>
       ELSE /\ url' = brew_url(version)
            /\ localname' = "kernel-" \o version \o ".src.rpm"
            /\ pc' = "urlretrieve"
            /\ UNCHANGED error
    /\ UNCHANGED <<inputs, fsv, target, dns, downloads, fetching, size,
                   blocknum, nread, pbar, srcv, confv, kabiv>>

\* a variant of Centos that reads the map with a default,
\* centos_kernel_map.get(version, ""), and so never raises KeyError
Centos_default ==
    /\ pc = "centos"
    /\ source' = "PublicMirror"
    /\ attempted' = Append(attempted, "PublicMirror")
    /\ url' = IF centos_key_error(version)
              THEN "http://vault.centos.org/"
              ELSE centos_url(version)
    /\ localname' = "kernel-" \o version \o ".src.rpm"
    /\ pc' = "urlretrieve"
    /\ UNCHANGED <<inputs, fsv, target, dns, downloads, fetching, size,
                   blocknum, nread, pbar, srcv, confv, kabiv, error>>

\* get_kernel_tar_from_centos up to the urlretrieve call
Centos ==
    /\ pc = "centos"
    /\ source' = "PublicMirror"
    /\ attempted' = Append(attempted, "PublicMirror")
    /\ IF centos_key_error(version)
       THEN /\ pc' = "aborted"
            /\ error' = "KeyError"
            /\ UNCHANGED <<url, localname>>
       ELSE /\ url' = centos_url(version)
            /\ localname' = "kernel-" \o version \o ".src.rpm"
            /\ pc' = "urlretrieve"
            /\ UNCHANGED error
    /\ UNCHANGED <<inputs, fsv, target, dns, downloads, fetching, size,
                   blocknum, nread, pbar, srcv, confv, kabiv>>

----------------------------------------------------------------------------
(* urlretrieve(url, filename, show_progress) *)

\* show_progress(count, block_size, total_size), lines 30-42, as the new
\* value of the global pbar
show_progress(p, count, block_size, total_size) ==
    LET started == IF p = None
                   THEN [active |-> TRUE, maxval |-> total_size, currval |-> 0]
                   ELSE p
        downloaded == count * block_size
    IN IF downloaded < total_size
       THEN [started EXCEPT !.currval = downloaded]
       ELSE None

\* The request: it fails (URLError), or the response is opened, the local
\* file is created and the hook is called with count 0.
UrlRetrieve ==
    /\ pc = "urlretrieve"
    /\ downloads' = downloads + 1
    /\ \/ /\ Raise("URLError")
          /\ UNCHANGED <<fetching, size, blocknum, nread, pbar, files>>
       \/ \E total \in 0..MaxSize :
             /\ size' = total
             /\ blocknum' = 0
             /\ nread' = 0
             /\ fetching' = TRUE
             /\ files' = files \cup {Join(cwd, localname)}
             /\ pbar' = show_progress(pbar, 0, BlockSize, total)
             /\ pc' = "read"
             /\ UNCHANGED error
    /\ UNCHANGED <<inputs, cwd, dirs, target, planv, url, localname, srcv,
                   confv, kabiv>>

\* One block is read and reported.
ReadBlock ==
    /\ pc = "read"
    /\ nread < size
    /\ nread' = nread + Min(BlockSize, size - nread)
    /\ blocknum' = blocknum + 1
    /\ pbar' = show_progress(pbar, blocknum + 1, BlockSize, size)
    /\ UNCHANGED <<inputs, fsv, target, planv, url, localname, downloads,
                   fetching, size, srcv, confv, kabiv, pc, error>>

\* The transfer breaks: the connection fails, or it ends before the announced
\* size was read (ContentTooShortError, a URLError).
ReadFail ==
    /\ pc = "read"
    /\ nread < size
    /\ fetching' = FALSE
    /\ Raise("URLError")
    /\ UNCHANGED <<inputs, fsv, target, planv, url, localname, downloads,
                   size, blocknum, nread, pbar, srcv, confv, kabiv>>

\* Everything was read: urlretrieve returns.
ReadEnd ==
    /\ pc = "read"
    /\ nread = size
    /\ fetching' = FALSE
    /\ IF source = "Upstream"
       THEN /\ tarname' = localname      \* line 141
            /\ pc' = "extract_tar"
       ELSE /\ pc' = "srpm"
            /\ UNCHANGED tarname
    /\ UNCHANGED <<inputs, fsv, target, planv, url, localname, downloads,
                   size, blocknum, nread, pbar, srpm_returned, kernel_dir,
                   confv, kabiv, error>>

----------------------------------------------------------------------------
(* get_kernel_from_srpm, lines 153-163: rpm2cpio | cpio, then the tar name *)

\* lines 160-163, with the working directory holding fs
srpm_tarname(v, fs) ==
    IF Join(cwd, "linux-" \o v \o ".tar.xz") \in fs
    THEN "linux-" \o v \o ".tar.xz"
    ELSE "linux-" \o v \o ".tar.bz2"

\* Popen cannot start rpm2cpio (FileNotFoundError); or cpio exits non-zero
\* (CalledProcessError), as it does when rpm2cpio fails and its output ends
\* early; or the package is unpacked and deposits its files.
ExtractSrpm ==
    /\ pc = "srpm"
    /\ \/ /\ Raise("FileNotFoundError")
          /\ UNCHANGED <<files, tarname, srpm_returned>>
       \/ /\ Raise("CalledProcessError")
          /\ UNCHANGED <<files, tarname, srpm_returned>>
       \/ \E content \in SrpmContents(version) :
             /\ files' = files \cup {Join(cwd, f) : f \in content}
             /\ tarname' = srpm_tarname(version, files')
             /\ srpm_returned' = TRUE
             /\ pc' = "extract_tar"
             /\ UNCHANGED error
    /\ UNCHANGED <<inputs, cwd, dirs, target, planv, fetchv, kernel_dir, confv,
                   kabiv>>

----------------------------------------------------------------------------
(* extract_tar, lines 215-228 *)

\* the directory name extract_tar derives from the tar name
tar_dirname(name) ==
    IF EndsWith(name, ".tar.xz") THEN DropLast(name, 7) ELSE DropLast(name, 8)

\* tar fails (always when the archive does not exist), or unpacks the tree;
\* then the archive is removed.
ExtractTar ==
    /\ pc = "extract_tar"
    /\ \/ /\ Raise("CalledProcessError")
          /\ UNCHANGED <<files, kernel_dir>>
       \/ /\ IsFile(tarname)
          /\ kernel_dir' = Join(cwd, tar_dirname(tarname))
          /\ files' = (files \ {Join(cwd, tarname)})
                        \cup {Join(kernel_dir', "Makefile")}
          /\ pc' = "get_config"
          /\ UNCHANGED error
    /\ UNCHANGED <<inputs, cwd, dirs, target, planv, fetchv, tarname,
                   srpm_returned, confv, kabiv>>

----------------------------------------------------------------------------
(* Orchestrator, lines 345-352: configuration *)

\* a variant of get_config_file that looks in the invocation directory
get_config_file_invocation(v) ==
    IF \A i \in 1..Len(configfile_options(v)) :
          Join(INVOCATION, configfile_options(v)[i]) \notin files
    THEN ""
    ELSE LET i == CHOOSE i \in 1..Len(configfile_options(v)) :
                     /\ Join(INVOCATION, configfile_options(v)[i]) \in files
                     /\ \A j \in 1..(i - 1) :
                           Join(INVOCATION, configfile_options(v)[j])
                              \notin files
         IN Join(INVOCATION, configfile_options(v)[i])

\* get_config_file(version), lines 51-63 (abspath of the first that exists)
get_config_file(v) ==
    IF FirstFile(configfile_options(v)) = "" THEN ""
    ELSE Join(cwd, FirstFile(configfile_options(v)))

\* lines 345-348
InstallConfig ==
    /\ pc = "get_config"
    /\ config_file' = get_config_file(version)
    /\ files' = IF config_file' # ""
                THEN (files \ {config_file'})
                       \cup {Join(kernel_dir, ".config")}
                ELSE files
    /\ cwd' = kernel_dir
    /\ pc' = "symlink_gcc"
    /\ UNCHANGED <<inputs, dirs, target, planv, fetchv, srcv, cmds, kabiv,
                   error>>

\* symlink_gcc_header: gcc -dumpversion fails, or the header is linked
SymlinkGccHeader ==
    /\ pc = "symlink_gcc"
    /\ \/ Raise("CalledProcessError")
       \/ /\ pc' = "configure"
          /\ UNCHANGED error
    /\ UNCHANGED <<inputs, fsv, target, planv, fetchv, srcv, confv, kabiv>>

\* the commands of configure_kernel, lines 293-303
configure_commands ==
    <<IF IsFile(".config") THEN "make olddefconfig" ELSE "make allmodconfig",
      "scripts/config --disable CONFIG_RETPOLINE",
      "make prepare",
      "make modules_prepare">>

\* where configure_kernel goes after its n-th command has succeeded
after_command(n) ==
    IF n = Len(configure_commands) THEN "autogen" ELSE "configure"

\* a variant of call_failed that goes on as if the command had succeeded
call_failed_ignored(n) ==
    /\ pc' = after_command(n)
    /\ UNCHANGED error

\* call_and_print, line 48: check_call raises when the n-th command of
\* configure_kernel exits non-zero
call_failed(n) == Raise("CalledProcessError")

\* configure_kernel: the next command is run by call_and_print
ConfigureKernel ==
    /\ pc = "configure"
    /\ LET n == Len(cmds) + 1
       IN \/ /\ cmds' = Append(cmds, [command |-> configure_commands[n],
                                      ok |-> FALSE])
             /\ call_failed(n)
          \/ /\ cmds' = Append(cmds, [command |-> configure_commands[n],
                                      ok |-> TRUE])
             /\ pc' = after_command(n)
             /\ UNCHANGED error
    /\ UNCHANGED <<inputs, fsv, target, planv, fetchv, srcv, config_file,
                   kabiv>>

\* autogen_time_headers (its failure is swallowed), then os.chdir(tmp)
AutogenTimeHeaders ==
    /\ pc = "autogen"
    /\ cwd' = TMP
    /\ pc' = IF want_kabi THEN "get_kabi_file" ELSE "install"
    /\ UNCHANGED <<inputs, files, dirs, target, planv, fetchv, srcv, confv,
                   kabiv, error>>

----------------------------------------------------------------------------
(* get_kabi_file, lines 66-116 *)

\* lines 67-90 up to the tar call: a candidate file that exists is returned;
\* else the first archive that exists is moved into the new directory kabi,
\* which becomes the current directory; else None is returned.
GetKabiFile ==
    /\ pc = "get_kabi_file"
    /\ IF FirstFile(kabi_filenames) # ""
       THEN /\ kabi_ret' = "value"
            /\ kabi_result' = FirstFile(kabi_filenames)
            /\ pc' = "kabi_install"
            /\ UNCHANGED <<fsv, kabi_cwd, kabi_made>>
       ELSE IF FirstFile(kabi_tarname_options(version)) = ""
       THEN /\ kabi_ret' = "None"
            /\ kabi_result' = ""
            /\ pc' = "kabi_install"
            /\ UNCHANGED <<fsv, kabi_cwd, kabi_made>>
       ELSE LET kabi_tarname == FirstFile(kabi_tarname_options(version))
            IN /\ kabi_cwd' = cwd
               /\ dirs' = dirs \cup {Join(cwd, "kabi")}
               /\ files' = (files \ {Join(cwd, kabi_tarname)})
                             \cup {Join(Join(cwd, "kabi"), kabi_tarname)}
               /\ cwd' = Join(cwd, "kabi")
               /\ kabi_made' = TRUE
               /\ pc' = "kabi_tar"
               /\ UNCHANGED <<kabi_ret, kabi_result>>
    /\ UNCHANGED <<inputs, target, planv, fetchv, srcv, confv, kabi_dir,
                   kabi_file, error>>

\* line 90: check_call(["tar", "-xjf", kabi_tarname])
KabiTar ==
    /\ pc = "kabi_tar"
    /\ \/ /\ Raise("CalledProcessError")
          /\ kabi_ret' = "raised"
          /\ UNCHANGED files
       \/ \E layout \in KabiLayouts :
             /\ files' = files \cup {Join(cwd, f) : f \in layout}
             /\ pc' = "kabi_dir"
             /\ UNCHANGED <<kabi_ret, error>>
    /\ UNCHANGED <<inputs, cwd, dirs, target, planv, fetchv, srcv, confv,
                   kabi_cwd, kabi_dir, kabi_made, kabi_result, kabi_file>>

\* lines 93-103: kabi-current, or the directory kernel.spec names
KabiDir ==
    /\ pc = "kabi_dir"
    /\ IF IsDir("kabi-current")
       THEN /\ kabi_dir' = "kabi-current"
            /\ pc' = "kabi_copy"
            /\ UNCHANGED <<cwd, kabi_ret, error>>
       ELSE IF Join(kabi_cwd, "kernel.spec") \notin files
       THEN \* os.chdir(cwd); open("kernel.spec") raises
            /\ cwd' = kabi_cwd
            /\ Raise("FileNotFoundError")
            /\ kabi_ret' = "raised"
            /\ UNCHANGED kabi_dir
       ELSE \E current \in KabiCurrentValues :
               /\ kabi_dir' = IF current = "" THEN "kabi-current" ELSE current
               /\ cwd' = Join(kabi_cwd, "kabi")
               /\ pc' = "kabi_copy"
               /\ UNCHANGED <<kabi_ret, error>>
    /\ UNCHANGED <<inputs, files, dirs, target, planv, fetchv, srcv, confv,
                   kabi_cwd, kabi_made, kabi_result, kabi_file>>

\* the first of kabi_filenames that is a file of directory kabi_dir, or ""
kabi_found ==
    FirstFile([i \in 1..Len(kabi_filenames) |->
                  kabi_dir \o "/" \o kabi_filenames[i]])

\* what `return kabi_file` (line 115) does with the local kabi_file
return_kabi_file(file) ==
    IF file = ""
    THEN /\ Raise("UnboundLocalError")
         /\ kabi_ret' = "raised"
         /\ UNCHANGED kabi_result
    ELSE /\ kabi_ret' = "value"
         /\ kabi_result' = file
         /\ pc' = "kabi_install"
         /\ UNCHANGED error

\* lines 105-115: copy the file found, leave and remove kabi, return
KabiCopy ==
    /\ pc = "kabi_copy"
    /\ kabi_file' = IF kabi_found = "" THEN ""
                    ELSE Join(kabi_cwd, Basename(kabi_found))
    /\ cwd' = kabi_cwd
    /\ files' = {f \in files : ~Below(f, Join(kabi_cwd, "kabi"))}
                  \cup (IF kabi_file' = "" THEN {} ELSE {kabi_file'})
    /\ dirs' = dirs \ {Join(kabi_cwd, "kabi")}
    /\ return_kabi_file(kabi_file')
    /\ UNCHANGED <<inputs, target, planv, fetchv, srcv, confv, kabi_cwd,
                   kabi_dir, kabi_made>>

\* lines 358-360
KabiInstall ==
    /\ pc = "kabi_install"
    /\ files' = IF kabi_result # ""
                THEN (files \ {Join(cwd, kabi_result)})
                       \cup {Join(kernel_dir, Basename(kabi_result))}
                ELSE files
    /\ pc' = "install"
    /\ UNCHANGED <<inputs, cwd, dirs, target, planv, fetchv, srcv, confv,
                   kabiv, error>>

----------------------------------------------------------------------------
(* Orchestrator, lines 362-367: the tree goes to the output directory *)

\* names of the files of the tree, relative to kernel_dir
tree_files ==
    {SubSeq(f, Len(kernel_dir) + 2, Len(f)) :
        f \in {g \in files : Below(g, kernel_dir)}}

\* rmtree(target) if it exists; then shutil.move fails, or moves the tree,
\* and the temporary directory is removed
Install ==
    /\ pc = "install"
    /\ \/ /\ target' = {}
          /\ Raise("shutil.Error")
          /\ UNCHANGED <<cwd, files, dirs>>
       \/ /\ target' = tree_files
          /\ files' = {f \in files : ~Below(f, TMP)}
          /\ dirs' = {d \in dirs : d # TMP /\ ~Below(d, TMP)}
          /\ cwd' = INVOCATION
          /\ pc' = "done"
          /\ UNCHANGED error
    /\ UNCHANGED <<inputs, planv, fetchv, srcv, confv, kabiv>>

----------------------------------------------------------------------------

Next ==
    \/ Setup
    \/ TryStrictVersion
    \/ GetHostByName
    \/ Upstream
    \/ Brew
    \/ Centos
    \/ UrlRetrieve
    \/ ReadBlock
    \/ ReadFail
    \/ ReadEnd
    \/ ExtractSrpm
    \/ ExtractTar
    \/ InstallConfig
    \/ SymlinkGccHeader
    \/ ConfigureKernel
    \/ AutogenTimeHeaders
    \/ GetKabiFile
    \/ KabiTar
    \/ KabiDir
    \/ KabiCopy
    \/ KabiInstall
    \/ Install

Spec == Init /\ [][Next]_vars

----------------------------------------------------------------------------
(* Properties *)

Range(seq) == {seq[i] : i \in 1..Len(seq)}

\* the version has a release part after a hyphen
Hyphenated(v) == Contains(v, "-")

\* the version is two or three dotted numbers and nothing else
StrictlyNumeric(v) ==
    /\ Len(Split(v, ".")) \in {2, 3}
    /\ \A i \in 1..Len(Split(v, ".")) : IsDigits(Split(v, ".")[i])

\* get_kernel_source has chosen (and entered) a strategy or given up
Resolved == pc \notin {"start", "get_kernel_source", "gethostbyname",
                       "upstream", "brew", "centos"}

(* C1: exactly one acquisition strategy and at most one download is         *)
(* attempted per run, and the PublicMirror strategy is entered only when     *)
(* the DNS resolution of the internal host has failed (so never after the    *)
(* InternalBuildSystem download has begun).                                  *)
C1_OneStrategyPerRun ==
    /\ Len(attempted) <= 1
    /\ downloads <= 1
    /\ "PublicMirror" \in Range(attempted) => dns = "fail"

\* the URL of the claim, from the full numeric components of the version
numeric_upstream_url(v) ==
    LET major == StrictVersionTuple(v)[1]
        minor == StrictVersionTuple(v)[2]
    IN "https://www.kernel.org/pub/linux/kernel/"
       \o (IF major < 3
           THEN "v" \o ToString(major) \o "." \o ToString(minor)
           ELSE "v" \o ToString(major) \o ".x")
       \o "/linux-" \o v \o ".tar.xz"

(* C2: for every strictly numeric dotted version the Upstream strategy is    *)
(* selected without a DNS lookup and the URL is                              *)
(* https://www.kernel.org/pub/linux/kernel/<dir>/linux-<version>.tar.xz with *)
(* <dir> = v<major>.<minor> below 3.0 and v<major>.x from 3.0 on, <major>    *)
(* and <minor> being the full numeric components.                            *)
C2_UpstreamUrl ==
    (StrictlyNumeric(version) /\ Resolved) =>
        /\ attempted = <<"Upstream">>
        /\ dns = "none"
        /\ url = numeric_upstream_url(version)

(* C3: for every hyphenated version that is a key of centos_kernel_map,      *)
(* when the internal host does not resolve, the PublicMirror strategy is     *)
(* selected and the URL is http://vault.centos.org/<mapped-release>/<seg>/   *)
(* Source/SPackages/kernel-<version>.src.rpm, <seg> being BaseOS iff the     *)
(* version ends in .el8 and os otherwise.                                    *)
C3_CentosUrl ==
    (/\ Hyphenated(version)
     /\ version \in DOMAIN centos_kernel_map
     /\ dns = "fail"
     /\ Resolved) =>
        /\ attempted = <<"PublicMirror">>
        /\ \E seg \in {"BaseOS", "os"} :
              /\ seg = "BaseOS" <=> EndsWith(version, ".el8")
              /\ url = "http://vault.centos.org/"
                         \o centos_kernel_map[version] \o "/" \o seg
                         \o "/Source/SPackages/kernel-" \o version
                         \o ".src.rpm"

\* an .el8 version of the map was resolved to the public mirror and its
\* download is about to start
C3_Witness ==
    /\ dns = "fail"
    /\ source = "PublicMirror"
    /\ EndsWith(version, ".el8")
    /\ pc = "urlretrieve"

(* C4: for a hyphenated version that is not a key of centos_kernel_map,      *)
(* when the internal host does not resolve, the run fails (KeyError) before  *)
(* any download is started: nothing is fetched, nothing is extracted, no     *)
(* second strategy or lookup is tried.                                       *)
C4_UnmappedVersionFails ==
    (/\ Hyphenated(version)
     /\ version \notin DOMAIN centos_kernel_map
     /\ dns = "fail") =>
        /\ pc \in {"centos", "aborted"}
        /\ pc = "aborted" => error = "KeyError"
        /\ downloads = 0
        /\ ~fetching
        /\ files = inv0
        /\ ~srpm_returned
        /\ kernel_dir = ""
        /\ Len(attempted) <= 1
        /\ target = target0

\* the run of an unmapped version ended with the KeyError of the map lookup
C4_Witness ==
    /\ Hyphenated(version)
    /\ dns = "fail"
    /\ pc = "aborted"
    /\ error = "KeyError"
    /\ attempted = <<"PublicMirror">>

(* C5: get_kabi_file returns None, without raising, (1) when none of the     *)
(* candidate archives exists and (2) when an archive exists and is extracted *)
(* but none of the candidate KABI files exists in its inner directory; the   *)
(* orchestrator then goes on to install the tree.                            *)
C5_KabiNone ==
    LET ended == kabi_ret # ""
        no_archive == ~kabi_made /\ kabi_ret # "value"
        no_file_inside == kabi_made /\ kabi_dir # "" /\ kabi_file = ""
    IN (ended /\ (no_archive \/ no_file_inside)) =>
          /\ kabi_ret = "None"
          /\ kabi_result = ""
          /\ error # "UnboundLocalError"

\* no command of configure_kernel that was run has failed
all_commands_ok == \A i \in 1..Len(cmds) : cmds[i].ok

C7_ProgressCleared ==
    /\ [](downloads > 0 /\ ~fetching => pbar = None)
    /\ [][(fetching /\ fetching' /\ pbar.active /\ pbar'.active)
             => pbar'.currval >= pbar.currval]_vars

(* C8: whenever get_kabi_file has made the kabi directory, by the time it    *)
(* ends (by return or by an exception) the directory is removed and the      *)
(* current directory is the one of its entry.                                *)
C8_KabiCleanup ==
    (kabi_made /\ kabi_ret # "" /\ pc # "done") =>
        /\ Join(kabi_cwd, "kabi") \notin dirs
        /\ \A f \in files : ~Below(f, Join(kabi_cwd, "kabi"))
        /\ cwd = kabi_cwd

\* the first of the names seq that is a file of directory d, or ""
RECURSIVE FirstIn(_, _, _, _)
FirstIn(seq, d, fs, i) ==
    IF i > Len(seq) THEN ""
    ELSE IF (d \o "/" \o seq[i]) \in fs THEN d \o "/" \o seq[i]
    ELSE FirstIn(seq, d, fs, i + 1)

\* the two names of the build configuration, the exact one first
config_names(v) ==
    <<"kernel-x86_64.config",
      "kernel-" \o SubSeq(v, 1, Len(Split(v, "-")[1])) \o "-x86_64.config">>

\* get_config_file has run
ConfigLookedUp == kernel_dir # "" /\ pc # "get_config"

(* C9 as stated: a configuration file or KABI file present in the directory  *)
(* the tool was invoked from is found by get_config_file / get_kabi_file     *)
(* (the lookups are made against the invocation directory).                  *)
C9_InvocationDirLookup ==
    /\ (ConfigLookedUp /\ FirstIn(config_names(version), "/inv", inv0, 1) # "")
          => config_file = FirstIn(config_names(version), "/inv", inv0, 1)
    /\ (kabi_ret # "" /\ FirstIn(kabi_filenames, "/inv", inv0, 1) # "")
          => kabi_ret = "value"

(* C9 amended: the lookups are made against the process current directory,   *)
(* which is the temporary working directory: a configuration file (the exact *)
(* name preferred over the version-qualified one) or, with --kabi, a KABI    *)
(* file present there is found and moved into the kernel tree; the files of  *)
(* the invocation directory are neither found nor touched.                   *)
C9_WorkingDirLookup ==
    /\ [][pc = "get_config" =>
            /\ config_file' = FirstIn(config_names(version), "/tmp/w", files, 1)
            /\ config_file' # "" =>
                  /\ (kernel_dir \o "/.config") \in files'
                  /\ config_file' \notin files']_vars
    /\ [][(pc = "get_kabi_file"
             /\ FirstIn(kabi_filenames, "/tmp/w", files, 1) # "") =>
            /\ kabi_ret' = "value"
            /\ ("/tmp/w/" \o kabi_result')
                  = FirstIn(kabi_filenames, "/tmp/w", files, 1)]_vars
    /\ [][(pc = "kabi_install" /\ kabi_result # "") =>
            (kernel_dir \o "/" \o Basename(kabi_result)) \in files']_vars
    /\ [](inv0 \subseteq files)

\* a configuration file and a KABI file of the working directory were both
\* installed into the tree, which is ready to be moved
C9_Witness ==
    /\ pc = "install"
    /\ config_file = "/tmp/w/kernel-x86_64.config"
    /\ (kernel_dir \o "/.config") \in files
    /\ kabi_ret = "value"
    /\ ~kabi_made
    /\ (kernel_dir \o "/kabi_whitelist_x86_64") \in files

(* C10: whenever get_kernel_from_srpm returns a tar name, it is              *)
(* linux-<version>.tar.xz or linux-<version>.tar.bz2 and a file of that name *)
(* exists in the working directory, the .tar.xz name taking precedence.      *)
C10_ReturnedTarExists ==
    (srpm_returned /\ pc = "extract_tar") =>
        /\ tarname \in {"linux-" \o version \o ".tar.xz",
                        "linux-" \o version \o ".tar.bz2"}
        /\ (cwd \o "/" \o tarname) \in files
        /\ (cwd \o "/linux-" \o version \o ".tar.xz") \in files
              => tarname = "linux-" \o version \o ".tar.xz"

====
